---- MODULE Spec2Model ----
(***************************************************************************)
(* whimsky: a bot that polls RSS feeds (and a news API), filters out what  *)
(* it has already posted, publishes each new entry to Bluesky and records  *)
(* the entry's url in the sqlite table posted_urls.                        *)
(*                                                                         *)
(* One state of the model is one await point of the program: every action  *)
(* runs the code from one .await to the next.                              *)
(***************************************************************************)
EXTENDS Integers, Sequences, FiniteSets, TLC

(***************************************************************************)
(* Bounds of the model.                                                    *)
(***************************************************************************)
\* the clock runs from BackdateHours to MaxNow
MaxNow == 2
\* --rss-feed-backdate-hours, in clock ticks
BackdateHours == 1
\* entries in one feed document
MaxFeedLen == 2
\* records in one news API response
MaxNewsLen == 3
\* largest ROWID the table hands out
MaxRowid == 4
\* posts created on Bluesky in one run
MaxPosts == 3
\* how often the process is started again after it has stopped
MaxBoots == 1
\* urls on the command line of one `database` subcommand
MaxCmdLen == 2
\* `database` subcommands run one after the other
MaxCmds == 2
\* the OFFSET of remove_old_stored_posts: 25000 in database.rs, scaled down
\* so that the table outgrows it within MaxRowid inserts
MaxStoredPosts == 2

(***************************************************************************)
(* Values.                                                                 *)
(***************************************************************************)
\* Option<T>: None, Some(v)
None == <<>>
Some(v) == <<v>>

\* the spawned tasks of StartCommand::run, one per --rss-feed-urls entry
Tasks == {1, 2}
\* news ids
Ids == {3, 5}
Locale == "en"
Dates == 0..MaxNow

\* fetcher.rs: format!("https://infinitynikki.infoldgames.com/{}/news/{}", locale, id)
NewsLink(locale, id) ==
    "https://infinitynikki.infoldgames.com/" \o locale \o "/news/" \o ToString(id)

\* the hrefs that feed entries link to
Links == {NewsLink(Locale, id) : id \in Ids}

\* feed_rs::model::Entry, the fields the bot reads
Entry == [links : {None} \cup {Some(l) : l \in Links},
          published : {None} \cup {Some(d) : d \in Dates}]
\* entries with a link and the latest publish date
NewEntry == [links : {Some(l) : l \in Links}, published : {Some(MaxNow)}]

SeqsUpTo(S, n) == UNION {[1..k -> S] : k \in 0..n}

Max(S) == CHOOSE m \in S : \A x \in S : x <= m

RECURSIVE IsSubseq(_, _)
\* a is b with some elements left out
IsSubseq(a, b) ==
    IF a = <<>> THEN TRUE
    ELSE IF b = <<>> THEN FALSE
    ELSE IF Head(a) = Head(b) THEN IsSubseq(Tail(a), Tail(b))
    ELSE IsSubseq(a, Tail(b))

(***************************************************************************)
(* database.rs: the table posted_urls as its rows in insertion order, each *)
(* row with the ROWID sqlite gave it.                                      *)
(***************************************************************************)
StoredUrls(db) == {db[i].url : i \in DOMAIN db}
Rowids(db) == {db[i].rowid : i \in DOMAIN db}

\* the table's definition (migrations/): url is the primary key
UniqueViolation(db, url) == url \in StoredUrls(db)

\* the ROWID of a new row: one more than the largest in use
NextRowid(db) == IF db = <<>> THEN 1 ELSE Max(Rowids(db)) + 1

\* SELECT url FROM posted_urls WHERE url = ? ... is_some()
has_posted_url(db, url) == \E i \in DOMAIN db : db[i].url = url

\* the INSERT into a table without a key on url
add_posted_url_nokey(db, url) ==
    [ok |-> TRUE, db |-> Append(db, [rowid |-> NextRowid(db), url |-> url])]

\* INSERT INTO posted_urls (url) VALUES (?)
add_posted_url(db, url) ==
    IF UniqueViolation(db, url)
    THEN [ok |-> FALSE, db |-> db]
    ELSE [ok |-> TRUE, db |-> Append(db, [rowid |-> NextRowid(db), url |-> url])]

\* DELETE with the comparison inverted
remove_posted_url_others(db, url) == SelectSeq(db, LAMBDA r : r.url = url)

\* DELETE FROM posted_urls WHERE url = ?
remove_posted_url(db, url) == SelectSeq(db, LAMBDA r : r.url # url)

\* the same DELETE with ORDER BY ROWID ASC
remove_old_stored_posts_asc(db) ==
    LET beyond == {r \in Rowids(db) :
                     Cardinality({q \in Rowids(db) : q < r}) >= MaxStoredPosts}
    IN  SelectSeq(db, LAMBDA r : r.rowid \notin beyond)

\* DELETE ... WHERE ROWID IN (SELECT ROWID ... ORDER BY ROWID DESC LIMIT -1 OFFSET n)
remove_old_stored_posts(db) ==
    LET beyond == {r \in Rowids(db) :
                     Cardinality({q \in Rowids(db) : q > r}) >= MaxStoredPosts}
    IN  SelectSeq(db, LAMBDA r : r.rowid \notin beyond)

RECURSIVE Collect(_)
\* Iterator<Item = Option<T>>::collect::<Option<Vec<T>>>(): None if an item is
\* None, else Some of the values; Some(vec![]) for no items
Collect(opts) ==
    IF opts = <<>> THEN Some(<<>>)
    ELSE IF Head(opts) = None THEN None
    ELSE LET rest == Collect(Tail(opts))
         IN  IF rest = None THEN None ELSE Some(<<Head(opts)[1]>> \o rest[1])

\* SELECT url FROM posted_urls: sqlx reads the column as Option<String>; the rows
\* are written by add_posted_url(&str) alone, so each holds a string
get_all_post_urls(db) == Collect([i \in DOMAIN db |-> Some(db[i].url)])

RECURSIVE join(_)
\* posts.join(",")
join(v) ==
    IF v = <<>> THEN ""
    ELSE IF Len(v) = 1 THEN v[1]
    ELSE v[1] \o "," \o join(Tail(v))

\* ExportPostsCommand::run on the answer of get_all_post_urls: bail!, or print
export_posts(q) ==
    IF q = None
    THEN [ok |-> FALSE, out |-> "There are no posts saved in the database"]
    ELSE [ok |-> TRUE, out |-> join(q[1])]

(***************************************************************************)
(* State.                                                                  *)
(***************************************************************************)
VARIABLES
    now,          \* Utc::now()
    posted_urls,  \* the table posted_urls
    published,    \* Bluesky: how many post records exist for each url
    process,      \* "running", or "exited" once run() has returned Err
    served,       \* what the feed servers hand out: "new" or "any" entries
    pc,           \* per task: the await it is suspended at
    failure,      \* per task: what the task panicked on
    filter_date,  \* per task: RssHandler.filter_date
    content,      \* per task: fetch_unposted, the entries not yet looked at
    new_entries,  \* per task: fetch_unposted, new_entries
    entries,      \* per task: feed.entries of the Ok(feed) of this cycle
    idx,          \* per task: the position of `post` in feed.entries
    audit,        \* per task, history: what the last fetch did with each entry
    cycle,        \* per task, history: what this cycle has done so far
    nikki,        \* the NikkiNewsFetcher and its fetch_unposted call
    call,         \* the last call made on Database directly, and its result
    boot,         \* history: how often the bot was started again, what was on
                  \* Bluesky when it last stopped and what its tasks had failed on
    cmd,          \* the `database` subcommand running next to the bot
    post,         \* start.rs: the entry `post` and the `page` fetched for it
    post_data     \* start.rs: the PostData assembled from them

vars == <<now, posted_urls, published, process, served, boot, cmd, post, post_data,
          pc, failure, filter_date, content, new_entries, entries, idx, audit, cycle,
          nikki, call>>

taskvars == <<pc, failure, filter_date, content, new_entries, entries, idx,
              audit, cycle>>

NoCall == [op |-> "none", url |-> "", ok |-> TRUE, ret |-> FALSE, before |-> <<>>]
\* a build without the news fetcher
NoFetcher == [pc |-> "unused", filter_date |-> 0, content |-> <<>>, posts |-> <<>>,
              response |-> <<>>, audit |-> <<>>, result |-> "none"]
\* the first start of the process
FirstBoot == [n |-> 0, published |-> [l \in Links |-> 0],
              failure |-> [s \in Tasks |-> "none"]]
\* no subcommand is running
NoCmd == [kind |-> "none", pc |-> "none", posts |-> <<>>, last |-> <<>>, n |-> 0]
NewCycle == [fetch |-> "none", posted |-> <<>>, recorded |-> <<>>, trimmed |-> "no"]

\* total number of posts on Bluesky
RECURSIVE SumOver(_, _)
SumOver(f, S) ==
    IF S = {} THEN 0
    ELSE LET x == CHOOSE y \in S : TRUE IN f[x] + SumOver(f, S \ {x})
Posts == SumOver(published, Links)

(***************************************************************************)
(* rss.rs: RssHandler                                                      *)
(***************************************************************************)
\* RssHandler::new: filter_date = Utc::now() - feed_backdate
NewFilterDate(t) == t - BackdateHours

\* an entry published at the cutoff passes
LocalSkip_early(item, cutoff) ==
    \/ item.published = None
    \/ item.published # None /\ item.published[1] < cutoff
    \/ item.links = None

\* the date comparison off by one
LocalSkip_late(item, cutoff) ==
    \/ item.published = None
    \/ item.published # None /\ item.published[1] <= cutoff + 1
    \/ item.links = None

\* the entries the loop of fetch_unposted passes over without a database call
LocalSkip(item, cutoff) ==
    \/ item.published = None
    \/ item.published # None /\ item.published[1] <= cutoff
    \/ item.links = None

RECURSIVE Scan(_, _)
\* the loop of fetch_unposted up to its next has_posted_url(..).await
Scan(items, cutoff) ==
    IF items = <<>> \/ ~LocalSkip(Head(items), cutoff) THEN items
    ELSE Scan(Tail(items), cutoff)

\* history: one audit record per item a fetch loop has passed: the item, the
\* cutoff it was compared with and whether its url was in the table at that moment
Audit(item, cutoff, present) ==
    [item |-> item, cutoff |-> cutoff, present |-> present]
NoAudit == [feed |-> <<>>, log |-> <<>>]

\* the feed documents a server can answer with
Feeds ==
    IF served = "any" THEN SeqsUpTo(Entry, MaxFeedLen) ELSE SeqsUpTo(NewEntry, MaxFeedLen)

\* history: the audit records of the entries passed over without a database call
Skipped(items, rest, cutoff) ==
    [i \in 1..(Len(items) - Len(rest)) |->
        Audit(items[i], cutoff,
              items[i].links # None /\ items[i].links[1] \in StoredUrls(posted_urls))]

\* fetch_unposted from one await to the next: pass over `items`, then either wait
\* for has_posted_url of the next entry or return Ok(feed)
FetchResume(s, items, acc, log) ==
    LET rest == Scan(items, filter_date[s])
        log2 == [log EXCEPT !.log = @ \o Skipped(items, rest, filter_date[s])]
    IN  /\ audit' = [audit EXCEPT ![s] = log2]
        /\ IF rest # <<>>
           THEN /\ pc' = [pc EXCEPT ![s] = "check"]
                /\ content' = [content EXCEPT ![s] = rest]
                /\ new_entries' = [new_entries EXCEPT ![s] = acc]
                /\ UNCHANGED <<filter_date, entries, idx, cycle>>
           ELSE /\ filter_date' = [filter_date EXCEPT ![s] = NewFilterDate(now)]
                /\ entries' = [entries EXCEPT ![s] = acc]
                /\ idx' = [idx EXCEPT ![s] = 1]
                /\ content' = [content EXCEPT ![s] = <<>>]
                /\ new_entries' = [new_entries EXCEPT ![s] = <<>>]
                /\ cycle' = [cycle EXCEPT ![s].fetch = "ok"]
                /\ pc' = [pc EXCEPT ![s] = IF acc = <<>> THEN "trim" ELSE "page"]

\* a panic whose JoinError nobody propagates: the other tasks go on
Panic_detached(s, what) ==
    /\ pc' = [pc EXCEPT ![s] = "panicked"]
    /\ failure' = [failure EXCEPT ![s] = what]
    /\ process' = process

\* the task panics at an unwrap(): its JoinHandle resolves to Err,
\* future::try_join_all(handles).await? returns it, run() and main return it and
\* the runtime drops the other tasks where they are suspended
Panic(s, what) ==
    /\ pc' = [pc EXCEPT ![s] = "panicked"]
    /\ failure' = [failure EXCEPT ![s] = what]
    /\ process' = "exited"

\* the Err falls through to the trim
FetchFailed_trims(s) ==
    /\ pc' = [pc EXCEPT ![s] = "trim"]
    /\ content' = [content EXCEPT ![s] = <<>>]
    /\ new_entries' = [new_entries EXCEPT ![s] = <<>>]
    /\ cycle' = [cycle EXCEPT ![s].fetch = "err"]
    /\ audit' = [audit EXCEPT ![s] = NoAudit]
    /\ UNCHANGED <<filter_date, entries, idx>>

\* the Err path with the cutoff moved as on the Ok path
FetchFailed_moves(s) ==
    /\ pc' = [pc EXCEPT ![s] = "sleep"]
    /\ content' = [content EXCEPT ![s] = <<>>]
    /\ new_entries' = [new_entries EXCEPT ![s] = <<>>]
    /\ cycle' = [cycle EXCEPT ![s].fetch = "err"]
    /\ audit' = [audit EXCEPT ![s] = NoAudit]
    /\ filter_date' = [filter_date EXCEPT ![s] = NewFilterDate(now)]
    /\ UNCHANGED <<entries, idx>>

\* fetch_unposted returns Err: start.rs logs it and goes to sleep
FetchFailed(s) ==
    /\ pc' = [pc EXCEPT ![s] = "sleep"]
    /\ content' = [content EXCEPT ![s] = <<>>]
    /\ new_entries' = [new_entries EXCEPT ![s] = <<>>]
    /\ cycle' = [cycle EXCEPT ![s].fetch = "err"]
    /\ audit' = [audit EXCEPT ![s] = NoAudit]
    /\ UNCHANGED <<filter_date, entries, idx>>

\* fetch_unposted, from the call to its first await on the database:
\* reqwest::get(feed), bytes(), feed_rs::parser::parse
RssGet(s) ==
    /\ process = "running"
    /\ pc[s] = "fetch"
    /\ UNCHANGED <<now, posted_urls, published, process, served, boot, cmd, post, post_data, failure, nikki, call>>
    /\ \/ FetchFailed(s)
       \/ \E feed \in Feeds :
            FetchResume(s, feed, <<>>, [feed |-> feed, log |-> <<>>])

\* fetch_unposted: has_posted_url(&link.href).await? for the entry at the head
RssCheck(s) ==
    /\ process = "running"
    /\ pc[s] = "check"
    /\ UNCHANGED <<now, posted_urls, published, process, served, boot, cmd, post, post_data, failure, nikki, call>>
    /\ LET item == Head(content[s])
           url == item.links[1]
           present == url \in StoredUrls(posted_urls)
       IN  \/ FetchFailed(s)
           \/ /\ has_posted_url(posted_urls, url)
              /\ FetchResume(s, Tail(content[s]), new_entries[s],
                     [audit[s] EXCEPT !.log = Append(@, Audit(item, filter_date[s], present))])
           \/ /\ ~has_posted_url(posted_urls, url)
              /\ FetchResume(s, Tail(content[s]), Append(new_entries[s], item),
                     [audit[s] EXCEPT !.log = Append(@, Audit(item, filter_date[s], present))])

(***************************************************************************)
(* commands/start.rs: the task spawned for one feed                        *)
(***************************************************************************)
\* the url the loop body works on: post.links.first().href
PostLink(s) == entries[s][idx[s]].links[1]

\* `continue`, or the end of the loop body: the next post, or the end of the for loop
NextPost(s) ==
    IF idx[s] + 1 > Len(entries[s])
    THEN /\ pc' = [pc EXCEPT ![s] = "trim"]
         /\ entries' = [entries EXCEPT ![s] = <<>>]
         /\ idx' = [idx EXCEPT ![s] = 1]
    ELSE /\ pc' = [pc EXCEPT ![s] = "page"]
         /\ idx' = [idx EXCEPT ![s] = idx[s] + 1]
         /\ UNCHANGED entries

\* bsky_handler.sync_session().await.unwrap()
SyncSession(s) ==
    /\ process = "running"
    /\ pc[s] = "sync"
    /\ UNCHANGED <<now, posted_urls, published, served, boot, cmd, post, post_data, filter_date,
                   content, new_entries, entries, idx, audit, cycle, nikki, call>>
    /\ \/ pc' = [pc EXCEPT ![s] = "fetch"] /\ UNCHANGED <<failure, process>>
       \/ Panic(s, "sync_session")

\* the loop body with the Ledger write ahead of the publish
PageGet_records(s) ==
    /\ process = "running"
    /\ pc[s] = "page"
    /\ audit' = [audit EXCEPT ![s] = NoAudit]
    /\ pc' = [pc EXCEPT ![s] = "record"]
    /\ UNCHANGED <<now, posted_urls, published, served, boot, cmd, post, post_data, filter_date,
                   content, new_entries, cycle, nikki, call, failure, process, entries, idx>>

\* reqwest::get(&post_link.href).await, and res.text().await ... unwrap()
PageGet(s) ==
    /\ process = "running"
    /\ pc[s] = "page"
    /\ audit' = [audit EXCEPT ![s] = NoAudit]
    /\ UNCHANGED <<now, posted_urls, published, served, boot, cmd, post, post_data, filter_date,
                   content, new_entries, cycle, nikki, call>>
    /\ \/ NextPost(s) /\ UNCHANGED <<failure, process>>
       \/ Panic(s, "page_text") /\ UNCHANGED <<entries, idx>>
       \/ pc' = [pc EXCEPT ![s] = "post"] /\ UNCHANGED <<failure, process, entries, idx>>

\* bsky_handler.post(post_data).await.unwrap(); bsky.rs post: the record is
\* created by create_record, and the threadgate record after it can still fail
Post(s) ==
    /\ process = "running"
    /\ pc[s] = "post"
    /\ UNCHANGED <<now, posted_urls, served, boot, cmd, post, post_data, filter_date, content,
                   new_entries, entries, idx, audit, nikki, call>>
    /\ \/ Panic(s, "post") /\ UNCHANGED <<published, cycle>>
       \/ /\ Posts < MaxPosts
          /\ published' = [published EXCEPT ![PostLink(s)] = @ + 1]
          /\ cycle' = [cycle EXCEPT ![s].posted = Append(@, idx[s])]
          /\ \/ pc' = [pc EXCEPT ![s] = "record"] /\ UNCHANGED <<failure, process>>
             \/ Panic(s, "post")

\* database.add_posted_url(..).await.unwrap()
Record(s) ==
    /\ process = "running"
    /\ pc[s] = "record"
    /\ UNCHANGED <<now, published, served, boot, cmd, post, post_data, filter_date, content,
                   new_entries, audit, nikki, call>>
    /\ \/ Panic(s, "add_posted_url: io") /\ UNCHANGED <<posted_urls, entries, idx, cycle>>
       \/ LET r == add_posted_url(posted_urls, PostLink(s))
          IN  /\ NextRowid(posted_urls) <= MaxRowid
              /\ posted_urls' = r.db
              /\ IF r.ok
                 THEN /\ NextPost(s)
                      /\ cycle' = [cycle EXCEPT ![s].recorded = Append(@, idx[s])]
                      /\ UNCHANGED <<failure, process>>
                 ELSE /\ Panic(s, "add_posted_url: duplicate")
                      /\ UNCHANGED <<entries, idx, cycle>>

\* the trim reports success and deletes nothing
Trim_keeps(s) ==
    /\ process = "running"
    /\ pc[s] = "trim"
    /\ pc' = [pc EXCEPT ![s] = "sleep"]
    /\ audit' = [audit EXCEPT ![s] = NoAudit]
    /\ cycle' = [cycle EXCEPT ![s].trimmed = "ok"]
    /\ UNCHANGED <<now, published, process, served, boot, cmd, post, post_data, failure, filter_date, content,
                   new_entries, entries, idx, nikki, call, posted_urls>>

\* if let Err(err) = database.remove_old_stored_posts().await { warn!(..) }
Trim(s) ==
    /\ process = "running"
    /\ pc[s] = "trim"
    /\ pc' = [pc EXCEPT ![s] = "sleep"]
    /\ audit' = [audit EXCEPT ![s] = NoAudit]
    /\ UNCHANGED <<now, published, process, served, boot, cmd, post, post_data, failure, filter_date, content,
                   new_entries, entries, idx, nikki, call>>
    /\ \/ /\ posted_urls' = remove_old_stored_posts(posted_urls)
          /\ cycle' = [cycle EXCEPT ![s].trimmed = "ok"]
       \/ /\ UNCHANGED posted_urls
          /\ cycle' = [cycle EXCEPT ![s].trimmed = "err"]

\* chrono DateTime::default(): the epoch, before every date of the model's clock
DateTimeDefault == -1

\* feed_rs Text.content of a summary, as the sequence of its markup tokens
Tokens == {[text |-> "New "], [text |-> "outfit"], [tag |-> "p"]}
MaxTokens == 2
\* the <meta> elements of a page, in document order
Metas == {[property |-> "og:description", content |-> Some("An outfit")],
          [property |-> "og:description", content |-> None],
          [property |-> "og:image", content |-> Some("https://example.com/i.png")],
          [property |-> "og:image", content |-> Some("/i.png")]}
MaxMetas == 2
\* the entries and pages the loop body assembles a post from
Assembled ==
    [title : {None, Some("Patch notes")},
     summary : {None} \cup {Some(c) : c \in SeqsUpTo(Tokens, MaxTokens)},
     published : {None} \cup {Some(d) : d \in Dates},
     href : {NewsLink(Locale, 3)},
     page : SeqsUpTo(Metas, MaxMetas)]

\* Html::parse_fragment(&summary.content).tree: the root, the html element, and
\* one node per token: an element for a tag, a text node for text
parse_fragment(fragment) ==
    <<[kind |-> "fragment"], [kind |-> "element", name |-> "html"]>>
    \o [i \in DOMAIN fragment |->
          IF "text" \in DOMAIN fragment[i]
          THEN [kind |-> "text", text |-> fragment[i].text]
          ELSE [kind |-> "element", name |-> fragment[i].tag]]

RECURSIVE collect_text(_)
\* .into_iter().filter_map(|node| node.as_text().map(..)).collect::<String>()
collect_text(tree) ==
    IF tree = <<>> THEN ""
    ELSE IF Head(tree).kind = "text" THEN Head(tree).text \o collect_text(Tail(tree))
    ELSE collect_text(Tail(tree))

\* html.select(&selector).next(): the first <meta property=..> of the page
select_next(page, property) ==
    LET found == SelectSeq(page, LAMBDA m : m.property = property)
    IN  IF found = <<>> THEN None ELSE Some(Head(found))

\* Url::parse(u).ok(): a relative reference does not parse
url_parse_ok(u) == IF u = "/i.png" THEN None ELSE Some(u)

\* post.summary.map(..).or_else(..).unwrap_or_else(..) with the page's
\* description before the summary
description_page_first(p) ==
    LET og == select_next(p.page, "og:description")
    IN  IF og # None /\ og[1].content # None THEN og[1].content[1]
        ELSE IF p.summary # None THEN collect_text(parse_fragment(p.summary[1]))
        ELSE "This site has not provided a description"

\* PostEmbed.description: post.summary.map(..).or_else(..).unwrap_or_else(..)
description(p) ==
    LET og == select_next(p.page, "og:description")
    IN  IF p.summary # None THEN collect_text(parse_fragment(p.summary[1]))
        ELSE IF og # None /\ og[1].content # None THEN og[1].content[1]
        ELSE "This site has not provided a description"

\* PostEmbed.thumbnail_url
thumbnail_url(p) ==
    LET og == select_next(p.page, "og:image")
    IN  IF og # None /\ og[1].content # None THEN url_parse_ok(og[1].content[1])
        ELSE None

\* let post_data = { let html = scraper::Html::parse_document(&page); PostData {..} }
PostData(p) ==
    [created_at |-> IF p.published # None THEN p.published[1] ELSE DateTimeDefault,
     text |-> (IF p.title # None THEN p.title[1] ELSE "New post") \o " - " \o p.href,
     embed |-> [title |-> IF p.title # None THEN p.title[1] ELSE p.href,
                description |-> description(p),
                thumbnail_url |-> thumbnail_url(p),
                uri |-> p.href]]

\* the loop body between the page fetch and the publish
Assemble ==
    /\ post # None
    /\ post_data = None
    /\ post_data' = Some(PostData(post[1]))
    /\ UNCHANGED <<now, posted_urls, published, process, served, boot, cmd, post,
                   taskvars, nikki, call>>

\* sleep(run_interval_seconds).await, and the loop starts over
Sleep(s) ==
    /\ process = "running"
    /\ pc[s] = "sleep"
    /\ pc' = [pc EXCEPT ![s] = "sync"]
    /\ cycle' = [cycle EXCEPT ![s] = NewCycle]
    /\ UNCHANGED <<now, posted_urls, published, process, served, boot, cmd, post, post_data, failure,
                   filter_date, content, new_entries, entries, idx, audit, nikki, call>>

\* time passes
Tick ==
    /\ process = "running"
    /\ now < MaxNow
    /\ now' = now + 1
    /\ UNCHANGED <<posted_urls, published, process, served, boot, cmd, post, post_data, taskvars, nikki, call>>

Loop(s) ==
    \/ SyncSession(s)
    \/ RssGet(s)
    \/ RssCheck(s)
    \/ PageGet(s)
    \/ Post(s)
    \/ Record(s)
    \/ Trim(s)
    \/ Sleep(s)

(***************************************************************************)
(* fetcher.rs: NikkiNewsFetcher                                            *)
(***************************************************************************)
\* NikkiNewsDataInner, the fields fetch_unposted decides on
NewsItem == [id : Ids, publish_time : Dates]

\* the responses of the news API: the records that share an id are the same record
NewsResponses ==
    {r \in SeqsUpTo(NewsItem, MaxNewsLen) :
        \A i, j \in DOMAIN r : r[i].id = r[j].id => r[i] = r[j]}

RECURSIVE dedup_by_key(_)
\* Vec::dedup_by_key(|k| k.id): of consecutive records with one id the first stays
dedup_by_key(v) ==
    IF Len(v) <= 1 THEN v
    ELSE LET rest == dedup_by_key(Tail(v))
         IN  IF Head(v).id = Head(rest).id
             THEN <<Head(v)>> \o Tail(rest)
             ELSE <<Head(v)>> \o rest

RECURSIVE InsertByKey(_, _)
InsertByKey(x, v) ==
    IF v = <<>> THEN <<x>>
    ELSE IF Head(v).id <= x.id THEN <<Head(v)>> \o InsertByKey(x, Tail(v))
    ELSE <<x>> \o v

RECURSIVE sort_by_key(_)
\* Vec::sort_by_key(|k| k.id): ascending, stable
sort_by_key(v) ==
    IF v = <<>> THEN v
    ELSE InsertByKey(v[Len(v)], sort_by_key(SubSeq(v, 1, Len(v) - 1)))

\* Vec::reverse
reverse(v) == [i \in 1..Len(v) |-> v[Len(v) + 1 - i]]

\* content.data.data after dedup_by_key, sort_by_key and reverse
Ordered(response) == reverse(sort_by_key(dedup_by_key(response)))

\* NikkiNewsPost
NewsPost(item) ==
    [url |-> NewsLink(Locale, item.id), publish_time |-> item.publish_time]

RECURSIVE NikkiScan(_, _)
\* the loop of fetch_unposted up to its next has_posted_url(..).await
NikkiScan(items, cutoff) ==
    IF items = <<>> \/ Head(items).publish_time > cutoff THEN items
    ELSE NikkiScan(Tail(items), cutoff)

\* fetch_unposted from one await to the next, on the response it decoded
NikkiResume(response, items, acc, log) ==
    LET rest == NikkiScan(items, nikki.filter_date)
        log2 == log \o [i \in 1..(Len(items) - Len(rest)) |->
                          Audit(items[i], nikki.filter_date,
                                NewsLink(Locale, items[i].id) \in StoredUrls(posted_urls))]
    IN  IF rest # <<>>
        THEN nikki' = [nikki EXCEPT !.pc = "check", !.content = rest,
                                    !.posts = acc, !.audit = log2, !.result = "none",
                                    !.response = response]
        ELSE nikki' = [nikki EXCEPT !.pc = "idle", !.content = <<>>,
                                    !.posts = acc, !.audit = log2, !.result = "ok",
                                    !.response = response,
                                    !.filter_date = NewFilterDate(now)]

\* fetch_unposted returns Err
NikkiFailed ==
    nikki' = [nikki EXCEPT !.pc = "idle", !.content = <<>>, !.posts = <<>>,
                           !.audit = <<>>, !.result = "err", !.response = <<>>]

\* fetch_unposted, from the call to its first await on the database:
\* reqwest::get(news_url), json::<NikkiNewsResponse>()
NikkiGet ==
    /\ nikki.pc = "idle"
    /\ UNCHANGED <<now, posted_urls, published, process, served, boot, cmd, post, post_data, taskvars, call>>
    /\ \/ NikkiFailed
       \/ \E response \in NewsResponses :
            NikkiResume(response, Ordered(response), <<>>, <<>>)

\* fetch_unposted: has_posted_url(link.as_str()).await? for the record at the head
NikkiCheck ==
    /\ nikki.pc = "check"
    /\ UNCHANGED <<now, posted_urls, published, process, served, boot, cmd, post, post_data, taskvars, call>>
    /\ LET item == Head(nikki.content)
           link == NewsLink(Locale, item.id)
           present == link \in StoredUrls(posted_urls)
       IN  \/ NikkiFailed
           \/ /\ has_posted_url(posted_urls, link)
              /\ NikkiResume(nikki.response, Tail(nikki.content), nikki.posts,
                     Append(nikki.audit, Audit(item, nikki.filter_date, present)))
           \/ /\ ~has_posted_url(posted_urls, link)
              /\ NikkiResume(nikki.response, Tail(nikki.content),
                     Append(nikki.posts, NewsPost(item)),
                     Append(nikki.audit, Audit(item, nikki.filter_date, present)))

(***************************************************************************)
(* database.rs: the methods of Database, called one at a time              *)
(***************************************************************************)
\* the urls the methods are called with
DbUrls == Links \cup {"https://example.com/blog/1", "https://example.com/blog/2"}

Called(op, url, ok, ret) ==
    [op |-> op, url |-> url, ok |-> ok, ret |-> ret, before |-> posted_urls]

DbAdd(url) ==
    /\ UNCHANGED <<now, published, process, served, boot, cmd, post, post_data, taskvars, nikki>>
    /\ \/ /\ call' = Called("add_posted_url", url, FALSE, FALSE)
          /\ UNCHANGED posted_urls
       \/ LET r == add_posted_url(posted_urls, url)
          IN  /\ NextRowid(posted_urls) <= MaxRowid
              /\ posted_urls' = r.db
              /\ call' = Called("add_posted_url", url, r.ok, FALSE)

DbRemove(url) ==
    /\ UNCHANGED <<now, published, process, served, boot, cmd, post, post_data, taskvars, nikki>>
    /\ \/ /\ call' = Called("remove_posted_url", url, FALSE, FALSE)
          /\ UNCHANGED posted_urls
       \/ /\ posted_urls' = remove_posted_url(posted_urls, url)
          /\ call' = Called("remove_posted_url", url, TRUE, FALSE)

DbHas(url) ==
    /\ UNCHANGED <<now, posted_urls, published, process, served, boot, cmd, post, post_data, taskvars, nikki>>
    /\ \/ call' = Called("has_posted_url", url, FALSE, FALSE)
       \/ call' = Called("has_posted_url", url, TRUE, has_posted_url(posted_urls, url))

DbTrim ==
    /\ UNCHANGED <<now, published, process, served, boot, cmd, post, post_data, taskvars, nikki>>
    /\ \/ /\ call' = Called("remove_old_stored_posts", "", FALSE, FALSE)
          /\ UNCHANGED posted_urls
       \/ /\ posted_urls' = remove_old_stored_posts(posted_urls)
          /\ call' = Called("remove_old_stored_posts", "", TRUE, FALSE)

DbGetAll ==
    /\ UNCHANGED <<now, posted_urls, published, process, served, boot, cmd, post, post_data, taskvars, nikki>>
    /\ \/ call' = Called("get_all_post_urls", "", FALSE, None)
       \/ call' = Called("get_all_post_urls", "", TRUE, get_all_post_urls(posted_urls))

(***************************************************************************)
(* The bot: `start` with one task per feed.                                *)
(***************************************************************************)
Init ==
    /\ boot = FirstBoot
    /\ cmd = NoCmd
    /\ post = None
    /\ post_data = None
    /\ now = BackdateHours
    /\ posted_urls = <<>>
    /\ published = [l \in Links |-> 0]
    /\ process = "running"
    /\ served = "new"
    /\ pc = [s \in Tasks |-> "sync"]
    /\ failure = [s \in Tasks |-> "none"]
    /\ filter_date = [s \in Tasks |-> NewFilterDate(now)]
    /\ content = [s \in Tasks |-> <<>>]
    /\ new_entries = [s \in Tasks |-> <<>>]
    /\ entries = [s \in Tasks |-> <<>>]
    /\ idx = [s \in Tasks |-> 1]
    /\ audit = [s \in Tasks |-> NoAudit]
    /\ cycle = [s \in Tasks |-> NewCycle]
    /\ nikki = NoFetcher
    /\ call = NoCall

Next ==
    \/ \E s \in Tasks : Loop(s)
    \/ Tick

Spec == Init /\ [][Next]_vars

(***************************************************************************)
(* The fetchers: one feed task with feeds of every shape, or the news      *)
(* fetcher over a table left by earlier runs.                              *)
(***************************************************************************)
\* the tables with rows numbered from 1
Tables ==
    {[i \in DOMAIN u |-> [rowid |-> i, url |-> u[i]]] :
        u \in {v \in SeqsUpTo(Links, Cardinality(Links)) :
                 \A i, j \in DOMAIN v : v[i] = v[j] => i = j}}

FetchInit ==
    /\ boot = FirstBoot
    /\ cmd = NoCmd
    /\ post = None
    /\ post_data = None
    /\ now = BackdateHours
    /\ published = [l \in Links |-> 0]
    /\ process = "running"
    /\ served = "any"
    /\ failure = [s \in Tasks |-> "none"]
    /\ filter_date = [s \in Tasks |-> NewFilterDate(now)]
    /\ content = [s \in Tasks |-> <<>>]
    /\ new_entries = [s \in Tasks |-> <<>>]
    /\ entries = [s \in Tasks |-> <<>>]
    /\ idx = [s \in Tasks |-> 1]
    /\ audit = [s \in Tasks |-> NoAudit]
    /\ cycle = [s \in Tasks |-> NewCycle]
    /\ call = NoCall
    /\ \/ /\ pc = [s \in Tasks |-> IF s = 1 THEN "sync" ELSE "unspawned"]
          /\ nikki = NoFetcher
          /\ posted_urls = <<>>
       \/ /\ pc = [s \in Tasks |-> "unspawned"]
          /\ nikki = [NoFetcher EXCEPT !.pc = "idle",
                                       !.filter_date = NewFilterDate(now)]
          /\ posted_urls \in Tables

FetchNext ==
    \/ \E s \in Tasks : Loop(s)
    \/ Tick
    \/ NikkiGet
    \/ NikkiCheck

FetchSpec == FetchInit /\ [][FetchNext]_vars

(***************************************************************************)
(* The table under the methods of Database.                                *)
(***************************************************************************)
DbInit ==
    /\ boot = FirstBoot
    /\ cmd = NoCmd
    /\ post = None
    /\ post_data = None
    /\ now = BackdateHours
    /\ posted_urls = <<>>
    /\ published = [l \in Links |-> 0]
    /\ process = "running"
    /\ served = "new"
    /\ pc = [s \in Tasks |-> "unspawned"]
    /\ failure = [s \in Tasks |-> "none"]
    /\ filter_date = [s \in Tasks |-> NewFilterDate(now)]
    /\ content = [s \in Tasks |-> <<>>]
    /\ new_entries = [s \in Tasks |-> <<>>]
    /\ entries = [s \in Tasks |-> <<>>]
    /\ idx = [s \in Tasks |-> 1]
    /\ audit = [s \in Tasks |-> NoAudit]
    /\ cycle = [s \in Tasks |-> NewCycle]
    /\ nikki = NoFetcher
    /\ call = NoCall

DbNext ==
    \/ \E url \in DbUrls : DbAdd(url)
    \/ \E url \in DbUrls : DbRemove(url)
    \/ \E url \in DbUrls : DbHas(url)
    \/ DbTrim
    \/ DbGetAll

DatabaseSpec == DbInit /\ [][DbNext]_vars

(***************************************************************************)
(* The bot over a stop and a new start of the process: the table and the   *)
(* posts on Bluesky stay, everything in memory is built again.             *)
(***************************************************************************)
\* the process is terminated while its tasks are suspended at an await
Stop ==
    /\ process = "running"
    /\ process' = "exited"
    /\ UNCHANGED <<now, posted_urls, published, served, boot, cmd, post, post_data,
                   taskvars, nikki, call>>

\* `start` again: StartCommand::run opens the same database, RssHandler::new
\* takes filter_date = Utc::now() - feed_backdate and each task enters its loop
Start ==
    /\ process = "exited"
    /\ boot.n < MaxBoots
    /\ boot' = [n |-> boot.n + 1, published |-> published, failure |-> failure]
    /\ process' = "running"
    /\ pc' = [s \in Tasks |-> IF pc[s] = "unspawned" THEN "unspawned" ELSE "sync"]
    /\ failure' = [s \in Tasks |-> "none"]
    /\ filter_date' = [s \in Tasks |-> NewFilterDate(now)]
    /\ content' = [s \in Tasks |-> <<>>]
    /\ new_entries' = [s \in Tasks |-> <<>>]
    /\ entries' = [s \in Tasks |-> <<>>]
    /\ idx' = [s \in Tasks |-> 1]
    /\ audit' = [s \in Tasks |-> NoAudit]
    /\ cycle' = [s \in Tasks |-> NewCycle]
    /\ UNCHANGED <<now, posted_urls, published, served, cmd, post, post_data, nikki, call>>

\* one feed, one task
RestartInit ==
    /\ now = BackdateHours
    /\ posted_urls = <<>>
    /\ published = [l \in Links |-> 0]
    /\ process = "running"
    /\ served = "new"
    /\ boot = FirstBoot
    /\ cmd = NoCmd
    /\ post = None
    /\ post_data = None
    /\ pc = [s \in Tasks |-> IF s = 1 THEN "sync" ELSE "unspawned"]
    /\ failure = [s \in Tasks |-> "none"]
    /\ filter_date = [s \in Tasks |-> NewFilterDate(now)]
    /\ content = [s \in Tasks |-> <<>>]
    /\ new_entries = [s \in Tasks |-> <<>>]
    /\ entries = [s \in Tasks |-> <<>>]
    /\ idx = [s \in Tasks |-> 1]
    /\ audit = [s \in Tasks |-> NoAudit]
    /\ cycle = [s \in Tasks |-> NewCycle]
    /\ nikki = NoFetcher
    /\ call = NoCall

RestartNext ==
    \/ \E s \in Tasks : Loop(s)
    \/ Tick
    \/ Stop
    \/ Start

RestartSpec == RestartInit /\ [][RestartNext]_vars

(***************************************************************************)
(* commands/database: insert-post and remove-post, each a process of its   *)
(* own on the database file the bot has open.                              *)
(***************************************************************************)
\* the urls on the command line
CmdUrls == Links \cup {"https://example.com/blog/1"}

\* history: what the command did with the last url, and whether the url was in
\* the table at that moment
Done(url, what) ==
    [url |-> url, what |-> what, present |-> url \in StoredUrls(posted_urls)]

\* the command is started: Database::new, and the for loop is entered
CmdStart(kind, posts) ==
    /\ cmd.pc \in {"none", "done", "failed"}
    /\ cmd.n < MaxCmds
    /\ posts # <<>>
    /\ cmd' = [kind |-> kind, pc |-> "has", posts |-> posts, last |-> <<>>,
               n |-> cmd.n + 1]
    /\ UNCHANGED <<now, posted_urls, published, process, served, boot, post, post_data,
                   taskvars, nikki, call>>

\* the end of the loop body: the next url, or Ok(())
CmdNext(url, what) ==
    cmd' = [cmd EXCEPT !.posts = Tail(@),
                       !.last = Done(url, what),
                       !.pc = IF Tail(cmd.posts) = <<>> THEN "done" ELSE "has"]

\* an await of the command returns Err, and `?` returns it from run
CmdFailed(url, what) ==
    cmd' = [cmd EXCEPT !.pc = "failed", !.last = Done(url, what)]

\* remove-post gives up at a url that is not in the table
CmdHas_bails ==
    /\ cmd.pc = "has"
    /\ UNCHANGED <<now, posted_urls, published, process, served, boot, post, post_data,
                   taskvars, nikki, call>>
    /\ LET url == Head(cmd.posts)
       IN  \/ CmdFailed(url, "has_posted_url: io")
           \/ /\ cmd.kind = "insert"
              /\ IF ~has_posted_url(posted_urls, url)
                 THEN cmd' = [cmd EXCEPT !.pc = "add"]
                 ELSE CmdNext(url, "is already marked as posted")
           \/ /\ cmd.kind = "remove"
              /\ IF has_posted_url(posted_urls, url)
                 THEN cmd' = [cmd EXCEPT !.pc = "remove"]
                 ELSE CmdFailed(url, "is not marked as posted")

\* database.has_posted_url(url).await? of insert_posts.rs and remove_posts.rs
CmdHas ==
    /\ cmd.pc = "has"
    /\ UNCHANGED <<now, posted_urls, published, process, served, boot, post, post_data,
                   taskvars, nikki, call>>
    /\ LET url == Head(cmd.posts)
       IN  \/ CmdFailed(url, "has_posted_url: io")
           \/ /\ cmd.kind = "insert"
              /\ IF ~has_posted_url(posted_urls, url)
                 THEN cmd' = [cmd EXCEPT !.pc = "add"]
                 ELSE CmdNext(url, "is already marked as posted")
           \/ /\ cmd.kind = "remove"
              /\ IF has_posted_url(posted_urls, url)
                 THEN cmd' = [cmd EXCEPT !.pc = "remove"]
                 ELSE CmdNext(url, "is not marked as posted")

\* insert_posts.rs: database.add_posted_url(url).await?
CmdAdd ==
    /\ cmd.pc = "add"
    /\ UNCHANGED <<now, published, process, served, boot, post, post_data,
                   taskvars, nikki, call>>
    /\ LET url == Head(cmd.posts)
           r == add_posted_url(posted_urls, url)
       IN  \/ CmdFailed(url, "add_posted_url: io") /\ UNCHANGED posted_urls
           \/ /\ NextRowid(posted_urls) <= MaxRowid
              /\ posted_urls' = r.db
              /\ IF r.ok THEN CmdNext(url, "added")
                         ELSE CmdFailed(url, "add_posted_url: duplicate")

\* remove_posts.rs: database.remove_posted_url(url).await?
CmdRemove ==
    /\ cmd.pc = "remove"
    /\ UNCHANGED <<now, published, process, served, boot, post, post_data,
                   taskvars, nikki, call>>
    /\ LET url == Head(cmd.posts)
       IN  \/ CmdFailed(url, "remove_posted_url: io") /\ UNCHANGED posted_urls
           \/ /\ posted_urls' = remove_posted_url(posted_urls, url)
              /\ CmdNext(url, "removed")

\* the bot with one feed, and the subcommands run next to it
CommandNext ==
    \/ \E s \in Tasks : Loop(s)
    \/ \E kind \in {"insert", "remove"} :
          \E posts \in SeqsUpTo(CmdUrls, MaxCmdLen) : CmdStart(kind, posts)
    \/ CmdHas
    \/ CmdAdd
    \/ CmdRemove

\* one feed, one task, no subcommand started yet
CommandInit == RestartInit

CommandSpec == CommandInit /\ [][CommandNext]_vars

\* insert-posts run on its own against a Ledger the bot has left behind
InsertInit ==
    /\ now = MaxNow
    /\ posted_urls \in Tables
    /\ published = [l \in Links |-> 0]
    /\ process = "exited"
    /\ served = "any"
    /\ boot = FirstBoot
    /\ cmd = NoCmd
    /\ post = None
    /\ post_data = None
    /\ pc = [s \in Tasks |-> "unspawned"]
    /\ failure = [s \in Tasks |-> "none"]
    /\ filter_date = [s \in Tasks |-> NewFilterDate(now)]
    /\ content = [s \in Tasks |-> <<>>]
    /\ new_entries = [s \in Tasks |-> <<>>]
    /\ entries = [s \in Tasks |-> <<>>]
    /\ idx = [s \in Tasks |-> 1]
    /\ audit = [s \in Tasks |-> NoAudit]
    /\ cycle = [s \in Tasks |-> NewCycle]
    /\ nikki = NoFetcher
    /\ call = NoCall

InsertNext ==
    \/ \E posts \in SeqsUpTo(CmdUrls, MaxCmdLen) : CmdStart("insert", posts)
    \/ CmdHas
    \/ CmdAdd

InsertSpec == InsertInit /\ [][InsertNext]_vars

(***************************************************************************)
(* One feed task that is scheduled for ever: the runtime resumes a task    *)
(* whose await has completed, and the network and the database answer      *)
(* with success again and again.                                           *)
(***************************************************************************)
LiveInit ==
    /\ now = BackdateHours
    /\ posted_urls = <<>>
    /\ published = [l \in Links |-> 0]
    /\ process = "running"
    /\ served = "any"
    /\ boot = FirstBoot
    /\ cmd = NoCmd
    /\ post = None
    /\ post_data = None
    /\ pc = [s \in Tasks |-> IF s = 1 THEN "sync" ELSE "unspawned"]
    /\ failure = [s \in Tasks |-> "none"]
    /\ filter_date = [s \in Tasks |-> NewFilterDate(now)]
    /\ content = [s \in Tasks |-> <<>>]
    /\ new_entries = [s \in Tasks |-> <<>>]
    /\ entries = [s \in Tasks |-> <<>>]
    /\ idx = [s \in Tasks |-> 1]
    /\ audit = [s \in Tasks |-> NoAudit]
    /\ cycle = [s \in Tasks |-> NewCycle]
    /\ nikki = NoFetcher
    /\ call = NoCall

\* a step of task s from the await `at` in which the awaited call returned Ok
Succeeds(s, at) ==
    /\ pc[s] = at
    /\ Loop(s)
    /\ pc'[s] # "panicked"
    /\ cycle'[s].fetch # "err"
    /\ cycle'[s].trimmed # "err"
    /\ pc[s] = "page" => pc'[s] = "post"

LiveSpec ==
    /\ LiveInit
    /\ [][Next]_vars
    /\ \A s \in Tasks :
          /\ WF_vars(Loop(s))
          /\ SF_vars(Succeeds(s, "sync"))
          /\ SF_vars(Succeeds(s, "fetch"))
          /\ SF_vars(Succeeds(s, "check"))
          /\ SF_vars(Succeeds(s, "page"))
          /\ SF_vars(Succeeds(s, "post"))
          /\ SF_vars(Succeeds(s, "record"))

(***************************************************************************)
(* The assembly of the post for one entry and its page.                    *)
(***************************************************************************)
AssembleInit ==
    /\ now = MaxNow
    /\ posted_urls = <<>>
    /\ published = [l \in Links |-> 0]
    /\ process = "running"
    /\ served = "any"
    /\ boot = FirstBoot
    /\ cmd = NoCmd
    /\ post \in {Some(p) : p \in Assembled}
    /\ post_data = None
    /\ pc = [s \in Tasks |-> IF s = 1 THEN "page" ELSE "unspawned"]
    /\ failure = [s \in Tasks |-> "none"]
    /\ filter_date = [s \in Tasks |-> NewFilterDate(now)]
    /\ content = [s \in Tasks |-> <<>>]
    /\ new_entries = [s \in Tasks |-> <<>>]
    /\ entries = [s \in Tasks |-> <<>>]
    /\ idx = [s \in Tasks |-> 1]
    /\ audit = [s \in Tasks |-> NoAudit]
    /\ cycle = [s \in Tasks |-> NewCycle]
    /\ nikki = NoFetcher
    /\ call = NoCall

AssembleSpec == AssembleInit /\ [][Assemble]_vars

(***************************************************************************)
(* The claims.                                                             *)
(***************************************************************************)
Range(v) == {v[i] : i \in DOMAIN v}
Items(log) == [i \in DOMAIN log |-> log[i].item]
Min(a, b) == IF a <= b THEN a ELSE b

\* the fetch of task s is under way, or has just returned Ok(feed)
InFetch(s) == pc[s] = "check"
Returned(s) == pc[s] \in {"page", "trim"} /\ audit[s] # NoAudit
\* what the fetch of task s has collected, or returned
FetchResult(s) == IF InFetch(s) THEN new_entries[s] ELSE entries[s]
NikkiAudited == nikki.pc = "check" \/ nikki.result = "ok"

\* an entry the feed fetcher has to return unless its link is in the table
Fresh(a) ==
    /\ a.item.published # None
    /\ a.item.published[1] > a.cutoff
    /\ a.item.links # None

\* C1: no url is published more than once, whatever the feeds carry and however
\* the cycles of the tasks interleave.
C1_PublishedAtMostOnce == \A l \in Links : published[l] <= 1

\* Every fetch result is made, in order, of items whose url was absent from the
\* table at the item's own check (feed task and news fetcher).
ResultFromAbsentItems ==
    /\ \A s \in Tasks : InFetch(s) \/ Returned(s) =>
          IsSubseq(FetchResult(s),
                   Items(SelectSeq(audit[s].log, LAMBDA a : ~a.present)))
    /\ NikkiAudited =>
          IsSubseq(nikki.posts,
                   [i \in DOMAIN SelectSeq(nikki.audit, LAMBDA a : ~a.present) |->
                       NewsPost(SelectSeq(nikki.audit, LAMBDA a : ~a.present)[i].item)])

\* C2: a fetch result holds no candidate with a url that was in the table when
\* the fetch checked that url (feed task and news fetcher).
C2_NoPostedCandidate ==
    /\ \A s \in Tasks : InFetch(s) \/ Returned(s) =>
          \A i \in DOMAIN audit[s].log :
              audit[s].log[i].present /\ audit[s].log[i].item.links # None =>
                  \A j \in DOMAIN FetchResult(s) :
                      FetchResult(s)[j].links # audit[s].log[i].item.links
    /\ NikkiAudited =>
          \A i \in DOMAIN nikki.audit : nikki.audit[i].present =>
              \A j \in DOMAIN nikki.posts :
                  nikki.posts[j].url # NewsLink(Locale, nikki.audit[i].item.id)

C4_PublishFailure ==
    \A s \in Tasks : pc[s] = "panicked" /\ failure[s] = "post" =>
        /\ process = "exited"
        /\ \A j \in 1..(idx[s] - 1) :
              has_posted_url(posted_urls, entries[s][j].links[1])
        /\ \A j \in idx[s]..Len(entries[s]) :
              /\ ~has_posted_url(posted_urls, entries[s][j].links[1])
              /\ j \notin Range(cycle[s].posted)

\* C5: recording a url that is already recorded leaves one row for it and is no
\* error for the publishing loop.
C5_RecordIdempotent ==
    /\ \A i, j \in DOMAIN posted_urls :
          posted_urls[i].url = posted_urls[j].url => i = j
    /\ \A s \in Tasks : failure[s] # "add_posted_url: duplicate"

\* C6: remove_old_stored_posts leaves min(cap, count) rows, and they are the most
\* recently inserted ones.
C6_TrimKeepsNewest ==
    call.op = "remove_old_stored_posts" /\ call.ok =>
        LET n == Len(call.before)
            keep == Min(MaxStoredPosts, n)
        IN  /\ Len(posted_urls) = keep
            /\ posted_urls = SubSeq(call.before, n - keep + 1, n)

\* C6, the case: the trim ran on a table with more rows than the cap, after rows
\* had been deleted and inserted out of order.
C6_Witness ==
    /\ call.op = "remove_old_stored_posts"
    /\ call.ok
    /\ Len(call.before) > MaxStoredPosts
    /\ \E i \in DOMAIN call.before : call.before[i].rowid # i

\* C7: after add_posted_url(url) succeeds has_posted_url(url) is true, and after
\* remove_posted_url(url) succeeds it is false.
C7_RoundTrip ==
    /\ call.op = "add_posted_url" /\ call.ok => has_posted_url(posted_urls, call.url)
    /\ call.op = "remove_posted_url" /\ call.ok => ~has_posted_url(posted_urls, call.url)

\* C7, the case: a url that add_posted_url had stored has been removed, next to
\* other rows.
C7_Witness ==
    /\ call.op = "remove_posted_url"
    /\ call.ok
    /\ has_posted_url(call.before, call.url)
    /\ posted_urls # <<>>

\* C8: the result of the news fetcher holds each id once, in strictly descending
\* order of the ids.
C8_DescendingIds ==
    nikki.result = "ok" =>
        \A i, j \in DOMAIN nikki.posts : i < j =>
            \E a, b \in Ids :
                /\ nikki.posts[i].url = NewsLink(Locale, a)
                /\ nikki.posts[j].url = NewsLink(Locale, b)
                /\ a > b

\* C9 as stated: no failure of one task's loop stops another task's loop: after a
\* failed fetch, publish or record of one task the tasks that have not failed
\* themselves are running.
C9_FailuresIsolated ==
    \A s \in Tasks :
        \/ cycle[s].fetch = "err"
        \/ /\ pc[s] = "panicked"
           /\ failure[s] \in {"post", "add_posted_url: io", "add_posted_url: duplicate"}
        => process = "running" \/ \E t \in Tasks \ {s} : pc[t] = "panicked"

\* C9 as amended: a failed fetch is isolated: the task goes to sleep, no other
\* task is touched and the process keeps running. The process ends only when a
\* task has panicked, which a failed fetch never causes: on a failed session
\* sync, page text, publish or record.
C9_FetchFailureIsolated ==
    /\ [](/\ process = "exited" <=> \E s \in Tasks : pc[s] = "panicked"
          /\ \A s \in Tasks : pc[s] = "panicked" =>
                failure[s] \in {"sync_session", "page_text", "post",
                                "add_posted_url: io", "add_posted_url: duplicate"})
    /\ [][\A s \in Tasks :
            cycle[s].fetch # "err" /\ cycle'[s].fetch = "err" =>
                /\ process' = "running"
                /\ pc'[s] = "sleep"
                /\ \A t \in Tasks \ {s} :
                      /\ pc'[t] = pc[t]
                      /\ entries'[t] = entries[t]
                      /\ idx'[t] = idx[t]]_vars

\* C9, the case: the fetch of one task had failed and the other task went on to
\* publish, until its panic ended the process with the first task asleep.
C9_Witness ==
    \E s, t \in Tasks :
        /\ cycle[s].fetch = "err"
        /\ pc[s] = "sleep"
        /\ pc[t] = "panicked"
        /\ cycle[t].posted # <<>>
        /\ process = "exited"

\* C10: in a cycle whose fetch failed the task publishes nothing, records nothing
\* and does not trim: it is asleep, has not panicked, and leaves the sleep only
\* for the top of the loop, from where the next fetch starts.
C10_FailedFetchSkipsCycle ==
    /\ [](\A s \in Tasks : cycle[s].fetch = "err" =>
            /\ pc[s] = "sleep"
            /\ failure[s] = "none"
            /\ cycle[s].posted = <<>>
            /\ cycle[s].recorded = <<>>
            /\ cycle[s].trimmed = "no")
    /\ [][\A s \in Tasks :
            /\ cycle[s].fetch # "err" /\ cycle'[s].fetch = "err" =>
                  posted_urls' = posted_urls /\ published' = published
            /\ pc[s] = "sleep" /\ pc'[s] # "sleep" => pc'[s] = "sync"
            /\ pc[s] = "sync" /\ pc'[s] \notin {"sync", "panicked"} => pc'[s] = "fetch"]_vars

\* C10, the case: a fetch has failed, on the database check of its second entry,
\* in a run that has published before.
C10_Witness ==
    \E s \in Tasks :
        /\ cycle[s].fetch = "err"
        /\ pc[s] = "sleep"
        /\ posted_urls # <<>>

\* C11: a url that was published with success before the process stopped, at
\* whatever await, is not published again after the next start.
C11_NoRepostAfterRestart ==
    \A l \in Links :
        /\ boot.n > 0
        /\ boot.published[l] > 0
        /\ \A s \in Tasks : boot.failure[s] # "post"
        => published[l] = boot.published[l]

\* C12: every item a successful fetch returned (newer than the cutoff, its url
\* not in the table) is in the end published and recorded, as long as the
\* process keeps running.
C12_NoMissedPost ==
    \A l \in Links :
        (\E s \in Tasks :
            /\ Returned(s)
            /\ \E j \in DOMAIN entries[s] : entries[s][j].links = Some(l))
        ~> (\/ process = "exited"
            \/ published[l] > 0 /\ has_posted_url(posted_urls, l))

\* C14: a failed page fetch does not take the candidate out of the cycle: from
\* the await of the page fetch the loop goes on to publish this candidate,
\* whatever the fetch returned (or the task panics on the page text).
C14_PageFailureStillPosts ==
    [][\A s \in Tasks :
        pc[s] = "page" /\ (pc'[s] # "page" \/ idx'[s] # idx[s])
            => pc'[s] \in {"post", "panicked"}]_vars

\* C13: a storage failure of the existence check inside the fetch, of the record
\* after the publish or of the trim is fatal for the loop of that task: the step
\* in which the call returns Err ends the task.
C13_StorageFailureFatal ==
    [][\A s \in Tasks :
        \/ pc[s] = "check" /\ cycle'[s].fetch = "err"
        \/ pc[s] = "record" /\ failure'[s] = "add_posted_url: io"
        \/ pc[s] = "trim" /\ cycle'[s].trimmed = "err"
        => pc'[s] = "panicked"]_vars

\* C15: get_all_post_urls returns None exactly when the table is empty, and the
\* export command then reports that no posts are saved; otherwise it returns
\* every stored url.
C15_NoneIffEmpty ==
    call.op = "get_all_post_urls" /\ call.ok =>
        /\ call.ret = None <=> call.before = <<>>
        /\ call.before = <<>> => ~export_posts(call.ret).ok
        /\ call.before # <<>> =>
              call.ret = Some([i \in DOMAIN call.before |-> call.before[i].url])

\* C16: removing a url that is not in the table is a no-op that succeeds: a step
\* of remove-post on such a url leaves the table as it is, and unless the
\* database call itself failed the command goes on to the next url (or ends Ok).
C16_RemoveAbsentNoOp ==
    [][/\ cmd.kind = "remove"
       /\ cmd.pc \in {"has", "remove"}
       /\ cmd' # cmd
       /\ ~has_posted_url(posted_urls, Head(cmd.posts))
       => /\ posted_urls' = posted_urls
          /\ \/ /\ cmd'.pc = "failed"
                /\ cmd'.last.what \in {"has_posted_url: io", "remove_posted_url: io"}
             \/ /\ cmd'.posts = Tail(cmd.posts)
                /\ cmd'.pc = IF Tail(cmd.posts) = <<>> THEN "done" ELSE "has"]_vars

\* C16, the case: remove-post has passed a url that is not in the table, the
\* table has rows, and the command is at its next url.
C16_Witness ==
    /\ cmd.kind = "remove"
    /\ cmd.pc = "has"
    /\ cmd.last # <<>>
    /\ cmd.last.what = "is not marked as posted"
    /\ ~cmd.last.present
    /\ posted_urls # <<>>

C17_OnlyFreshLinked ==
    \A s \in Tasks : InFetch(s) \/ Returned(s) =>
        /\ IsSubseq(FetchResult(s), audit[s].feed)
        /\ IsSubseq(FetchResult(s), Items(SelectSeq(audit[s].log, Fresh)))
        /\ \A j \in DOMAIN FetchResult(s) :
              /\ FetchResult(s)[j].published # None
              /\ FetchResult(s)[j].links # None
              /\ \A i \in DOMAIN audit[s].log :
                    FetchResult(s)[j].published[1] > audit[s].log[i].cutoff

\* C17, the case: a fetch has returned an entry and left out one that was
\* published exactly at the cutoff and has a link that is not in the table.
C17_Witness ==
    \E s \in Tasks :
        /\ Returned(s)
        /\ entries[s] # <<>>
        /\ \E i \in DOMAIN audit[s].log :
              LET a == audit[s].log[i]
              IN  /\ a.item.published = Some(a.cutoff)
                  /\ a.item.links # None
                  /\ ~a.present

RECURSIVE Concat(_)
\* the strings of a sequence, joined
Concat(v) == IF v = <<>> THEN "" ELSE Head(v) \o Concat(Tail(v))

\* the summary without its markup: the text tokens, joined
PlainText(markup) ==
    LET texts == SelectSeq(markup, LAMBDA k : "text" \in DOMAIN k)
    IN  Concat([i \in DOMAIN texts |-> texts[i].text])

\* the description the page lookup provides: the content of the first
\* og:description element, if it has one
OgDescription(page) ==
    LET i == CHOOSE i \in DOMAIN page :
                 /\ page[i].property = "og:description"
                 /\ \A j \in 1..(i - 1) : page[j].property # "og:description"
    IN  IF \A k \in DOMAIN page : page[k].property # "og:description" THEN None
        ELSE page[i].content

\* C18: the embed description is the summary as plain text when the entry has a
\* summary, else the page's og:description when the lookup provides one, else
\* "This site has not provided a description".
C18_Description ==
    post_data # None =>
        LET p == post[1]
            d == post_data[1].embed.description
        IN  /\ p.summary # None => d = PlainText(p.summary[1])
            /\ p.summary = None /\ OgDescription(p.page) # None
                  => d = OgDescription(p.page)[1]
            /\ p.summary = None /\ OgDescription(p.page) = None
                  => d = "This site has not provided a description"

\* C18, the case: a post was assembled for an entry with a summary that holds
\* markup, from a page that has an og:description.
C18_Witness ==
    /\ post_data # None
    /\ post[1].summary # None
    /\ \E i \in DOMAIN post[1].summary[1] : "tag" \in DOMAIN post[1].summary[1][i]
    /\ \E i \in DOMAIN post[1].summary[1] : "text" \in DOMAIN post[1].summary[1][i]
    /\ OgDescription(post[1].page) # None

\* C20: within one cycle the candidates are published one at a time in the
\* order the fetcher returned them, and a candidate's url is written to the
\* Ledger only after its publish returned success and before the publish of
\* the next candidate starts.
C20_PublishThenRecord ==
    \A s \in Tasks :
        LET posted == cycle[s].posted
            recorded == cycle[s].recorded
        IN  /\ \A i, j \in DOMAIN posted : i < j => posted[i] < posted[j]
            /\ Len(recorded) <= Len(posted)
            /\ Len(posted) <= Len(recorded) + 1
            /\ recorded = SubSeq(posted, 1, Len(recorded))
            /\ pc[s] \in {"page", "post"} =>
                  /\ posted = recorded
                  /\ \A i \in DOMAIN posted : posted[i] < idx[s]
            /\ pc[s] = "record" => posted = Append(recorded, idx[s])

\* C20, the case: the second candidate of a cycle was published after the
\* first was recorded, and its own url is about to be written.
C20_Witness ==
    \E s \in Tasks :
        /\ pc[s] = "record"
        /\ idx[s] = 2
        /\ cycle[s].recorded = <<1>>
        /\ cycle[s].posted = <<1, 2>>
        /\ has_posted_url(posted_urls, entries[s][1].links[1])

C25_PublishTimeKept ==
    post_data # None /\ post[1].published # None =>
        post_data[1].created_at = post[1].published[1]

\* C26: insert-posts, given urls that may repeat or be in the Ledger already,
\* leaves each listed url in the Ledger exactly once, changes no other entry,
\* returns no error for an url that is present, and publishes nothing: every
\* step of the command either fails on storage i/o, or passes over a present
\* url, or appends the one row of the url it is at.
C26_BulkInsert ==
    [][cmd.kind = "insert" /\ cmd.pc \in {"has", "add"} /\ cmd' # cmd =>
        LET url == Head(cmd.posts)
        IN  /\ published' = published
            /\ \/ posted_urls' = posted_urls
               \/ /\ ~has_posted_url(posted_urls, url)
                  /\ posted_urls' = Append(posted_urls,
                         [rowid |-> NextRowid(posted_urls), url |-> url])
            /\ cmd'.pc = "failed" =>
                  cmd'.last.what \in {"has_posted_url: io", "add_posted_url: io"}
            /\ cmd'.posts # cmd.posts =>
                  Cardinality({i \in DOMAIN posted_urls' : posted_urls'[i].url = url}) = 1]_vars

\* C26, run alone: a command that began with a repeated url on a Ledger that
\* held one of its urls has ended, and the Ledger holds each url once.
C26_AloneWitness ==
    /\ cmd.kind = "insert"
    /\ cmd.pc = "done"
    /\ cmd.last.what = "is already marked as posted"
    /\ Len(posted_urls) = Cardinality(StoredUrls(posted_urls))
    /\ cmd.last.url \in StoredUrls(posted_urls)

\* the step of source s that ends fetch_unposted with Ok
FetchReturnsOk(s) ==
    pc[s] \in {"fetch", "check"} /\ pc'[s] \in {"page", "trim"}

\* C22: the cutoff of a source changes only in the step that ends a successful
\* fetch of that source, which sets it to the current time minus the backdate
\* window; a failed fetch, the publishing, the trim, the sleep and every step
\* of another source leave it as it was.
C22_CutoffFrame ==
    [][\A s \in Tasks :
          /\ FetchReturnsOk(s) => filter_date'[s] = now - BackdateHours
          /\ ~FetchReturnsOk(s) => filter_date'[s] = filter_date[s]]_vars

\* C22, the case: one source has moved its cutoff at the end of a successful
\* fetch, while another, whose fetch failed at that time, still has the old one.
C22_Witness ==
    \E s, t \in Tasks :
        /\ s # t
        /\ cycle[s].fetch = "ok"
        /\ filter_date[s] = now - BackdateHours
        /\ cycle[t].fetch = "err"
        /\ filter_date[t] < now - BackdateHours
        /\ now = MaxNow

\* C22 for the news fetcher of fetcher.rs:109: its cutoff moves only where
\* fetch_unposted returns Ok
C22_NikkiCutoffFrame ==
    [][/\ nikki'.result = "ok" /\ nikki.pc \in {"idle", "check"} /\ nikki' # nikki
          => nikki'.filter_date = now - BackdateHours
       /\ ~(nikki'.result = "ok" /\ nikki.pc \in {"idle", "check"} /\ nikki' # nikki)
          => nikki'.filter_date = nikki.filter_date]_vars

\* the awaits of the loop body of start.rs:125-206
Publishing == {"page", "post", "record"}

\* C21: the trim runs after every publishing phase that ends without a
\* failure, also when the fetch returned no candidate or candidates were passed
\* over, and right after a successful trim the Ledger holds at most
\* MaxStoredPosts entries.
C21_TrimAfterPublishing ==
    [][\A s \in Tasks :
          /\ FetchReturnsOk(s) /\ entries'[s] = <<>> => pc'[s] = "trim"
          /\ pc[s] \in Publishing /\ pc'[s] \notin Publishing
                => pc'[s] \in {"trim", "panicked"}
          /\ pc[s] = "trim" /\ pc'[s] # "trim" =>
                /\ pc'[s] = "sleep"
                /\ cycle'[s].trimmed = "ok" => Len(posted_urls') <= MaxStoredPosts]_vars

\* C21, the case: a cycle that published nothing has trimmed a Ledger that an
\* insert-posts had grown beyond MaxStoredPosts, and the oldest row is gone.
C21_Witness ==
    \E s \in Tasks :
        /\ pc[s] = "sleep"
        /\ cycle[s].fetch = "ok"
        /\ cycle[s].posted = <<>>
        /\ cycle[s].trimmed = "ok"
        /\ cmd.kind = "insert"
        /\ cmd.n = 1
        /\ Len(posted_urls) = MaxStoredPosts
        /\ posted_urls[1].rowid > 1

\* the step in which the loop body passes over its candidate after
\* reqwest::get(&post_link.href) returned Err
PageSkipped(s) ==
    /\ pc[s] = "page"
    /\ pc'[s] \in {"page", "trim"}
    /\ pc'[s] = "page" => idx'[s] = idx[s] + 1

\* C24, the half that holds: the candidate whose page fetch failed is neither
\* published nor recorded in that step, and the loop goes on with the next
\* candidate, or to the trim after the last one.
C24_SkipLeavesLedger ==
    [][\A s \in Tasks : PageSkipped(s) =>
          /\ published' = published
          /\ posted_urls' = posted_urls
          /\ cycle'[s].posted = cycle[s].posted
          /\ cycle'[s].recorded = cycle[s].recorded
          /\ IF idx[s] < Len(entries[s])
             THEN pc'[s] = "page" /\ entries'[s] = entries[s]
             ELSE pc'[s] = "trim"]_vars

\* C24: a candidate passed over because its page fetch failed is not published
\* and not recorded in that cycle, the other candidates are still processed,
\* and the next successful fetch returns it again: it still passes the date
\* test of fetch_unposted against the cutoff the next fetch compares with,
\* which is the cutoff the source has from the skip on (C22).
C24_SkippedIsRetried ==
    [][\A s \in Tasks : PageSkipped(s) =>
          /\ published' = published
          /\ posted_urls' = posted_urls
          /\ ~LocalSkip(entries[s][idx[s]], filter_date'[s])]_vars

\* the failures the claim lets end a source loop: session sync, publish, record
Excused == {"sync_session", "post", "add_posted_url: io", "add_posted_url: duplicate"}

\* C23: a source loop that suffers no publish, record or session-sync failure
\* never terminates: every cycle, after a fetch that succeeded or failed, comes
\* to the sleep, and every sleep is followed by another fetch.
C23_LoopRecurs ==
    \A s \in Tasks :
        /\ pc[s] = "fetch" ~> (pc[s] = "sleep" \/ failure[s] \in Excused)
        /\ pc[s] = "sleep" ~> (pc[s] = "fetch" \/ failure[s] \in Excused)

\* C23 with the failure of reading the page body let end the loop as well
C23_LoopRecursButPageText ==
    \A s \in Tasks :
        /\ pc[s] = "fetch" ~> (pc[s] = "sleep" \/ failure[s] \in Excused \cup {"page_text"})
        /\ pc[s] = "sleep" ~> (pc[s] = "fetch" \/ failure[s] \in Excused \cup {"page_text"})

====
